---- MODULE Spec2Model ----
(***************************************************************************)
(* Decentralized-Organic-Computing: the connection and message-dispatch    *)
(* layer (NetworkManager, src/src/core/network/index.ts) and the privacy   *)
(* enforcement layer (PrivacyManager, src/unnamed/part_000).               *)
(*                                                                         *)
(* Every public method, transport callback and timer callback is one       *)
(* action.  `last` records what the most recent call did: its name, its    *)
(* return value, whether it threw, the events it emitted (in order) and    *)
(* the frames it handed to transports (in order).  Listeners of emitted    *)
(* events belong to the host application and are taken not to throw.       *)
(***************************************************************************)
EXTENDS Integers, Sequences, FiniteSets, TLC

VARIABLES
    connections,         \* NetworkManager.connections: Map, as a sequence of <<key, socket>> in insertion order
    heartbeatIntervals,  \* NetworkManager.heartbeatIntervals: node id -> timer handle
    timers,              \* interval timers still scheduled by the runtime (set, not yet cleared)
    ws,                  \* per transport socket: readyState and the node id its callbacks closed over
    server,              \* the WebSocket.Server: "LISTENING", "CLOSING" or "CLOSED"
    arg,                 \* the argument of a pure call under study, drawn at the start
    policies,            \* PrivacyManager.policies: data type -> policy
    trustScores,         \* PrivacyManager.trustScores: node id -> score (hundredths)
    consentRegistry,     \* PrivacyManager.consentRegistry: consent key -> set of grantees
    last                 \* observation of the most recent call

netVars == <<connections, heartbeatIntervals, timers, ws, server>>
privVars == <<policies, trustScores, consentRegistry>>
vars == <<connections, heartbeatIntervals, timers, ws, server,
          policies, trustScores, consentRegistry, arg, last>>

(***************************************************************************)
(* Bounds                                                                  *)
(***************************************************************************)
\* transport connections the server sees in one run
MaxSock == 3
\* NetworkConfig.maxConnections of the run
maxConnections == 2
\* Date.now() returns a value in 1..MaxTime
MaxTime == 2

Sock == 1..MaxSock
Clock == 1..MaxTime
\* values Math.random().toString(36).substring(2, 15) may return: nothing keeps two calls apart
NodeIds == {"k3f", "q9z"}
generateNodeId == NodeIds
\* a recipient that was never assigned to a connection
StrangerId == "zzz"

NoId == "<none>"
NoTimer == 0
NoMsg == [absent |-> TRUE]

(***************************************************************************)
(* Message and MessageType                                                 *)
(***************************************************************************)
MessageType == {"RESOURCE_REQUEST", "RESOURCE_RESPONSE", "DATA_SHARE",
                "PATTERN_UPDATE", "CONSENSUS_REQUEST", "NODE_DISCOVERY"}

\* a JS object is a function from the property names it has; a missing property is undefined
Has(obj, f) == f \in DOMAIN obj
Drop(obj, f) == [k \in (DOMAIN obj) \ {f} |-> obj[k]]

\* JS truthiness of a property holding a string (or missing) and of one holding a number (or missing)
TruthyStr(obj, f) == Has(obj, f) /\ obj[f] # ""
TruthyNum(obj, f) == Has(obj, f) /\ obj[f] # 0

(***************************************************************************)
(* Emitted events and transmitted frames                                   *)
(***************************************************************************)
Ev(name, nodeId, msg) == [name |-> name, nodeId |-> nodeId, msg |-> msg]
Frame(sock, msg) == [to |-> sock, data |-> msg]
Ping(sock) == [to |-> sock, data |-> [kind |-> "ping"]]

\* a boolean return value as the observation holds it
Bool(b) == IF b THEN "true" ELSE "false"

\* a call with its arguments kept
CallA(op, args, ret, threw, events, sent) ==
    [op |-> op, args |-> args, ret |-> ret, threw |-> threw,
     events |-> events, sent |-> sent]
\* a callback or call identified by the node id it is about
Call(op, nodeId, ret, threw, events, sent) ==
    CallA(op, [nodeId |-> nodeId], ret, threw, events, sent)

EventCount(l, name) == Cardinality({i \in DOMAIN l.events : l.events[i].name = name})

(***************************************************************************)
(* Map<string, V> with insertion order                                     *)
(***************************************************************************)
MapKeys(m) == {m[i][1] : i \in DOMAIN m}
MapHas(m, k) == k \in MapKeys(m)
MapIndex(m, k) == CHOOSE i \in DOMAIN m : m[i][1] = k
MapGet(m, k) == m[MapIndex(m, k)][2]
\* Map.set keeps the position of a key that is already present
MapSet(m, k, v) ==
    IF MapHas(m, k) THEN [m EXCEPT ![MapIndex(m, k)] = <<k, v>>]
    ELSE Append(m, <<k, v>>)
MapDelete(m, k) == SelectSeq(m, LAMBDA e : e[1] # k)
MapSize(m) == Len(m)

(***************************************************************************)
(* NetworkManager                                                          *)
(***************************************************************************)
\* the manager's mutable state threaded through its private methods
NM == [connections |-> connections, heartbeatIntervals |-> heartbeatIntervals,
       timers |-> timers, events |-> <<>>]

IsOpen(sock) == ws[sock].readyState = "OPEN"

handleDisconnection(st, nodeId) ==
    LET interval == st.heartbeatIntervals[nodeId]
        cleared == IF interval # NoTimer
                   THEN [st EXCEPT !.timers = @ \ {interval},
                                   !.heartbeatIntervals[nodeId] = NoTimer]
                   ELSE st
    IN  [cleared EXCEPT !.connections = MapDelete(@, nodeId),
                        !.events = Append(@, Ev("nodeDisconnected", nodeId, NoMsg))]

\* setInterval: a new timer, named after the socket it was created for
setupHeartbeat(st, nodeId, sock) ==
    [st EXCEPT !.timers = @ \cup {sock},
               !.heartbeatIntervals[nodeId] = sock]

\* faulty variant: the capacity check is off by one
AtCapacity_OffByOne(st) == MapSize(st.connections) > maxConnections

AtCapacity(st) == MapSize(st.connections) >= maxConnections

\* the part of handleConnection after the capacity check
registerConnection(st, nodeId, sock) ==
    LET set == [st EXCEPT !.connections = MapSet(@, nodeId, sock)]
        hb  == setupHeartbeat(set, nodeId, sock)
    IN  [hb EXCEPT !.events = Append(@, Ev("nodeConnected", nodeId, NoMsg))]

Commit(st) ==
    /\ connections' = st.connections
    /\ heartbeatIntervals' = st.heartbeatIntervals
    /\ timers' = st.timers

NextSock == CHOOSE s \in Sock : ws[s].readyState = "NONE" /\ \A t \in Sock : t < s => ws[t].readyState # "NONE"

\* server 'connection' callback: generateNodeId, then handleConnection
handleConnection ==
    /\ server = "LISTENING"
    /\ \E s \in Sock : ws[s].readyState = "NONE"
    /\ \E nodeId \in generateNodeId :
         LET sock == NextSock IN
         IF AtCapacity(NM)
         THEN /\ ws' = [ws EXCEPT ![sock] = [readyState |-> "CLOSING", nodeId |-> NoId]]
              /\ last' = Call("handleConnection", nodeId, "rejected", FALSE, <<>>, <<>>)
              /\ UNCHANGED <<connections, heartbeatIntervals, timers>>
         ELSE LET st == registerConnection(NM, nodeId, sock) IN
              /\ ws' = [ws EXCEPT ![sock] = [readyState |-> "OPEN", nodeId |-> nodeId]]
              /\ Commit(st)
              /\ last' = Call("handleConnection", nodeId, "registered", FALSE, st.events, <<>>)
    /\ UNCHANGED <<server, privVars, arg>>

Registered(sock) == ws[sock].nodeId # NoId

\* the transport starts closing: the peer's close frame arrived or the link failed
TransportClosing(sock) ==
    /\ ws[sock].readyState = "OPEN"
    /\ ws' = [ws EXCEPT ![sock].readyState = "CLOSING"]
    /\ last' = Call("transportClosing", ws[sock].nodeId, "void", FALSE, <<>>, <<>>)
    /\ UNCHANGED <<connections, heartbeatIntervals, timers, server, privVars, arg>>

\* ws 'close' callback (the transport is closed first; an unregistered socket has no callback)
OnClose(sock) ==
    /\ ws[sock].readyState \in {"OPEN", "CLOSING"}
    /\ ws' = [ws EXCEPT ![sock].readyState = "CLOSED"]
    /\ IF Registered(sock)
       THEN LET st == handleDisconnection(NM, ws[sock].nodeId) IN
            /\ Commit(st)
            /\ last' = Call("onClose", ws[sock].nodeId, "void", FALSE, st.events, <<>>)
       ELSE /\ UNCHANGED <<connections, heartbeatIntervals, timers>>
            /\ last' = Call("transportClosed", NoId, "void", FALSE, <<>>, <<>>)
    /\ UNCHANGED <<server, privVars, arg>>

\* ws 'error' callback: the transport has failed and is closing
OnError(sock) ==
    /\ Registered(sock)
    /\ ws[sock].readyState \in {"OPEN", "CLOSING"}
    /\ ws' = [ws EXCEPT ![sock].readyState = "CLOSING"]
    /\ last' = Call("onError", ws[sock].nodeId, "void", FALSE,
                    <<Ev("error", ws[sock].nodeId, NoMsg)>>, <<>>)
    /\ UNCHANGED <<connections, heartbeatIntervals, timers, server, privVars, arg>>

\* what a heartbeat callback is about: the node id and the socket it closed over
Beat(sock) == [nodeId |-> ws[sock].nodeId, sock |-> sock]

\* faulty variant: only a closed socket counts as gone, a closing one is still pinged
HeartbeatTick_PingsWhileClosing(sock) ==
    /\ sock \in timers
    /\ IF ws[sock].readyState # "CLOSED"
       THEN /\ last' = CallA("heartbeat", Beat(sock), "void", FALSE, <<>>, <<Ping(sock)>>)
            /\ UNCHANGED <<connections, heartbeatIntervals, timers>>
       ELSE LET st == handleDisconnection(NM, ws[sock].nodeId) IN
            /\ Commit(st)
            /\ last' = CallA("heartbeat", Beat(sock), "void", FALSE, st.events, <<>>)
    /\ UNCHANGED <<ws, server, privVars, arg>>

\* the setInterval callback of setupHeartbeat, for the timer created for `sock`
HeartbeatTick(sock) ==
    /\ sock \in timers
    /\ IF IsOpen(sock)
       THEN /\ last' = CallA("heartbeat", Beat(sock), "void", FALSE, <<>>, <<Ping(sock)>>)
            /\ UNCHANGED <<connections, heartbeatIntervals, timers>>
       ELSE LET st == handleDisconnection(NM, ws[sock].nodeId) IN
            /\ Commit(st)
            /\ last' = CallA("heartbeat", Beat(sock), "void", FALSE, st.events, <<>>)
    /\ UNCHANGED <<ws, server, privVars, arg>>

(***************************************************************************)
(* Inbound bytes: JSON.parse, validateMessage, dispatch                    *)
(***************************************************************************)
\* what data.toString() may hold: text that is no JSON, the JSON text null, or a JSON object
GarbageBytes == [kind |-> "garbage"]
NullJson == [kind |-> "null"]
JSONstringify(obj) == [kind |-> "json", value |-> obj]
JSONparseThrows(data) == data.kind = "garbage"
JSONparse(data) == IF data.kind = "json" THEN data.value ELSE "null"

\* message.id && message.type && message.sender && message.recipient &&
\* message.timestamp && message.timestamp <= Date.now(), read as a condition
validateMessage(message, dateNow) ==
    /\ TruthyStr(message, "id")
    /\ TruthyStr(message, "type")
    /\ TruthyStr(message, "sender")
    /\ TruthyStr(message, "recipient")
    /\ TruthyNum(message, "timestamp")
    /\ message["timestamp"] <= dateNow

\* the switch of handleMessage: the event the handler of each case emits
dispatchEvent(type) ==
    CASE type = "RESOURCE_REQUEST" -> "resourceRequest"
      [] type = "DATA_SHARE" -> "dataShare"
      [] type = "PATTERN_UPDATE" -> "patternUpdate"
      [] type = "CONSENSUS_REQUEST" -> "consensusRequest"
      [] type = "NODE_DISCOVERY" -> "nodeDiscovery"
      [] OTHER -> "unknownMessageType"

\* faulty variant: messageReceived is emitted after the try block, failure or not
handleMessage_ReceivedAfterCatch(nodeId, data, dateNow) ==
    IF data.kind # "json" THEN
        <<Ev("error", nodeId, NoMsg), Ev("messageReceived", nodeId, NoMsg)>>
    ELSE LET message == JSONparse(data) IN
         IF ~validateMessage(message, dateNow)
         THEN <<Ev("error", nodeId, NoMsg), Ev("messageReceived", nodeId, message)>>
         ELSE <<Ev(dispatchEvent(message["type"]), NoId, message),
                Ev("messageReceived", nodeId, message)>>

\* the events handleMessage emits, in order
handleMessage(nodeId, data, dateNow) ==
    IF JSONparseThrows(data) THEN <<Ev("error", nodeId, NoMsg)>>
    ELSE IF data.kind = "null" THEN <<Ev("error", nodeId, NoMsg)>>   \* TypeError reading null.id
    ELSE LET message == JSONparse(data) IN
         IF ~validateMessage(message, dateNow) THEN <<Ev("error", nodeId, NoMsg)>>
         ELSE <<Ev(dispatchEvent(message["type"]), NoId, message),
                Ev("messageReceived", nodeId, message)>>

\* messages a peer may put on the wire
WireTypes == MessageType \cup {"", "GOSSIP"}
\* one message of every type stamped 1, and a DATA_SHARE with every other shape of
\* id and timestamp (empty id, timestamp 0, timestamp after every clock value, no timestamp)
TypedMessages ==
    [id : {"m1"}, type : WireTypes, sender : {"peerA"}, recipient : {"me"},
     payload : {"data"}, timestamp : {1}]
ShapedMessages ==
    [id : {"", "m1"}, type : {"DATA_SHARE"}, sender : {"peerA"}, recipient : {"me"},
     payload : {"data"}, timestamp : {0, MaxTime + 1}]
WireMessages ==
    TypedMessages \cup ShapedMessages \cup {Drop(m, "timestamp") : m \in {x \in ShapedMessages : x.id = "m1"}}
InboundData == {GarbageBytes, NullJson} \cup {JSONstringify(m) : m \in WireMessages}
\* what the connection-lifecycle specification lets peers send: bytes that fail, a message that passes
ProbeData == {GarbageBytes} \cup {JSONstringify(m) : m \in {x \in TypedMessages : x.type = "DATA_SHARE"}}

\* ws 'message' callback
OnMessage(sock, data, dateNow) ==
    /\ Registered(sock)
    /\ ws[sock].readyState \in {"OPEN", "CLOSING"}
    /\ last' = CallA("handleMessage", [nodeId |-> ws[sock].nodeId, data |-> data, dateNow |-> dateNow],
                     "void", FALSE, handleMessage(ws[sock].nodeId, data, dateNow), <<>>)
    /\ UNCHANGED <<netVars, privVars, arg>>

(***************************************************************************)
(* Outbound: sendMessage, broadcast                                        *)
(***************************************************************************)
\* messages the application sends; the template of a broadcast has no recipient
OutMessages ==
    [id : {"m7"}, type : {"PATTERN_UPDATE"}, sender : {"me"},
     recipient : NodeIds \cup {StrangerId}, payload : {"data"}, timestamp : {1}]
Templates == {Drop(m, "recipient") : m \in OutMessages}

\* faulty variant: the readyState of the connection is not looked at
sendMessage_SkipsReadyState(conns, message, sendThrows) ==
    LET args == [message |-> message, sendThrows |-> sendThrows] IN
    IF ~MapHas(conns, message["recipient"]) THEN
        CallA("sendMessage", args, "false", FALSE, <<>>, <<>>)
    ELSE IF sendThrows THEN
        CallA("sendMessage", args, "false", FALSE, <<Ev("error", NoId, message)>>, <<>>)
    ELSE
        CallA("sendMessage", args, "true", FALSE,
              <<Ev("messageSent", NoId, message)>>,
              <<Frame(MapGet(conns, message["recipient"]), JSONstringify(message))>>)

\* sendThrows: JSON.stringify or connection.send throws inside the try block
sendMessage(conns, message, sendThrows) ==
    LET args == [message |-> message, sendThrows |-> sendThrows] IN
    IF ~MapHas(conns, message["recipient"]) THEN
        CallA("sendMessage", args, "false", FALSE, <<>>, <<>>)
    ELSE IF ~IsOpen(MapGet(conns, message["recipient"])) THEN
        CallA("sendMessage", args, "false", FALSE, <<>>, <<>>)
    ELSE IF sendThrows THEN
        CallA("sendMessage", args, "false", FALSE, <<Ev("error", NoId, message)>>, <<>>)
    ELSE
        CallA("sendMessage", args, "true", FALSE,
              <<Ev("messageSent", NoId, message)>>,
              <<Frame(MapGet(conns, message["recipient"]), JSONstringify(message))>>)

SendMessage(message, sendThrows) ==
    /\ last' = sendMessage(connections, message, sendThrows)
    /\ UNCHANGED <<netVars, privVars, arg>>

\* { ...message, recipient: nodeId }
WithRecipient(message, nodeId) ==
    [k \in (DOMAIN message) \cup {"recipient"} |->
        IF k = "recipient" THEN nodeId ELSE message[k]]

\* connections.forEach of broadcast over the entries still to visit; `failing` are the
\* sockets whose send throws.  A throw leaves forEach at once.
RECURSIVE broadcastLoop(_, _, _)
broadcastLoop(entries, message, failing) ==
    IF entries = <<>> THEN [sent |-> <<>>, threw |-> FALSE]
    ELSE LET nodeId == Head(entries)[1]
             connection == Head(entries)[2]
         IN  IF ~IsOpen(connection) THEN broadcastLoop(Tail(entries), message, failing)
             ELSE IF connection \in failing THEN [sent |-> <<>>, threw |-> TRUE]
             ELSE LET rest == broadcastLoop(Tail(entries), message, failing) IN
                  [sent |-> <<Frame(connection, JSONstringify(WithRecipient(message, nodeId)))>> \o rest.sent,
                   threw |-> rest.threw]

broadcast(conns, message, failing) ==
    LET loop == broadcastLoop(conns, message, failing) IN
    CallA("broadcast", [message |-> message, failing |-> failing], "void", loop.threw,
          IF loop.threw THEN <<>> ELSE <<Ev("messageBroadcast", NoId, message)>>,
          loop.sent)

Broadcast(message, failing) ==
    /\ last' = broadcast(connections, message, failing)
    /\ UNCHANGED <<netVars, privVars, arg>>

(***************************************************************************)
(* disconnect                                                              *)
(***************************************************************************)
\* WebSocket.close(): an open socket starts its closing handshake
closeSocket(sockets, sock) ==
    IF sockets[sock].readyState = "OPEN"
    THEN [sockets EXCEPT ![sock].readyState = "CLOSING"]
    ELSE sockets

\* connections.forEach of disconnect: an entry deleted before its turn is not visited
RECURSIVE disconnectLoop(_, _)
disconnectLoop(st, entries) ==
    IF entries = <<>> THEN st
    ELSE LET nodeId == Head(entries)[1] IN
         IF MapHas(st.connections, nodeId)
         THEN disconnectLoop(handleDisconnection(st, nodeId), Tail(entries))
         ELSE disconnectLoop(st, Tail(entries))

RECURSIVE closeAll(_, _)
closeAll(sockets, entries) ==
    IF entries = <<>> THEN sockets
    ELSE closeAll(closeSocket(sockets, Head(entries)[2]), Tail(entries))

Disconnect ==
    /\ server = "LISTENING"
    /\ LET st == disconnectLoop(NM, connections) IN
       /\ Commit(st)
       /\ last' = Call("disconnect", NoId, "void", FALSE, st.events, <<>>)
    /\ ws' = closeAll(ws, connections)
    /\ server' = "CLOSING"
    /\ UNCHANGED <<privVars, arg>>

\* the callback given to server.close
OnServerClosed ==
    /\ server = "CLOSING"
    /\ server' = "CLOSED"
    /\ last' = Call("onServerClosed", NoId, "void", FALSE, <<Ev("serverClosed", NoId, NoMsg)>>, <<>>)
    /\ UNCHANGED <<connections, heartbeatIntervals, timers, ws, privVars, arg>>

(***************************************************************************)
(* PrivacyManager                                                          *)
(***************************************************************************)
\* Map.set on a Map held as a function from its keys
Put(map, k, v) == [x \in (DOMAIN map) \cup {k} |-> IF x = k THEN v ELSE map[x]]

\* data types that get policies and consent; "med" is only asked about or claimed by a policy
DataTypes == {"loc"}
QueryTypes == {"loc", "med"}
Operations == {"read", "write"}
\* trust scores in hundredths: -0.01, 0, 0.5, 1, 1.01
ScoreInputs == {-1, 0, 50, 100, 101}

SharingPolicies ==
    [allowedNodes : {{}, {"q9z"}}, requireConsent : BOOLEAN, minimumTrust : {0, 50}]
\* every shape of policy a caller may pass, fields missing included
TypedPolicies ==
    [dataType : {"", "loc", "med"}, allowedOperations : {{}, {"read"}},
     retentionPeriod : {0, 3600}, sharingPolicy : SharingPolicies]
PolicyInputs ==
    TypedPolicies
      \cup {Drop(p, "allowedOperations") : p \in TypedPolicies}
      \cup {Drop(p, "retentionPeriod") : p \in TypedPolicies}
\* the policies that differ in what checkPermission reads
PermissionPolicies ==
    {p \in TypedPolicies : p.dataType = "loc" /\ p.retentionPeriod = 3600}

\* whether validatePolicy throws
validatePolicyThrows(policy) ==
    \/ ~TruthyStr(policy, "dataType")
    \/ ~Has(policy, "allowedOperations")      \* an array, even an empty one, is truthy
    \/ (Has(policy, "retentionPeriod") /\ policy["retentionPeriod"] <= 0)

SetPolicy(dataType, policy) ==
    /\ IF validatePolicyThrows(policy)
       THEN /\ UNCHANGED policies
            /\ last' = CallA("setPolicy", [dataType |-> dataType], "void", TRUE, <<>>, <<>>)
       ELSE /\ policies' = Put(policies, dataType, policy)
            /\ last' = CallA("setPolicy", [dataType |-> dataType], "void", FALSE,
                             <<Ev("policyUpdated", NoId, [dataType |-> dataType, policy |-> policy])>>, <<>>)
    /\ UNCHANGED <<netVars, trustScores, consentRegistry, arg>>

\* `${grantor}:${dataType}`
consentKey(grantor, dataType) == grantor \o ":" \o dataType

\* this.consentRegistry.get(consentKey)?.size > 0 || false
checkConsent(registry, nodeId, dataType) ==
    LET key == consentKey(nodeId, dataType) IN
    Has(registry, key) /\ Cardinality(registry[key]) > 0

\* this.trustScores.get(nodeId) || 0
trustScoreOf(scores, nodeId) ==
    IF Has(scores, nodeId) /\ scores[nodeId] # 0 THEN scores[nodeId] ELSE 0

\* faulty variant: the trust threshold is not compared
checkPermission_IgnoresTrust(pols, scores, registry, nodeId, dataType, operation) ==
    IF ~Has(pols, dataType) THEN FALSE
    ELSE LET policy == pols[dataType]
             hasConsent == checkConsent(registry, nodeId, dataType)
         IN  /\ operation \in policy["allowedOperations"]
             /\ nodeId \in policy["sharingPolicy"].allowedNodes
             /\ (~policy["sharingPolicy"].requireConsent \/ hasConsent)

checkPermission(pols, scores, registry, nodeId, dataType, operation) ==
    IF ~Has(pols, dataType) THEN FALSE
    ELSE LET policy == pols[dataType]
             trustScore == trustScoreOf(scores, nodeId)
             hasConsent == checkConsent(registry, nodeId, dataType)
         IN  /\ operation \in policy["allowedOperations"]
             /\ nodeId \in policy["sharingPolicy"].allowedNodes
             /\ trustScore >= policy["sharingPolicy"].minimumTrust
             /\ (~policy["sharingPolicy"].requireConsent \/ hasConsent)

CheckPermission(nodeId, dataType, operation) ==
    /\ last' = CallA("checkPermission",
                     [nodeId |-> nodeId, dataType |-> dataType, operation |-> operation],
                     Bool(checkPermission(policies, trustScores, consentRegistry, nodeId, dataType, operation)),
                     FALSE, <<>>, <<>>)
    /\ UNCHANGED <<netVars, privVars, arg>>

grantConsent(registry, grantor, grantee, dataType) ==
    LET key == consentKey(grantor, dataType)
        made == IF Has(registry, key) THEN registry ELSE Put(registry, key, {})
    IN  Put(made, key, made[key] \cup {grantee})

\* faulty variant: the whole entry of the key is deleted
revokeConsent_DropsEntry(registry, grantor, grantee, dataType) ==
    Drop(registry, consentKey(grantor, dataType))

\* faulty variant: the grantee is left in the set
revokeConsent_KeepsMember(registry, grantor, grantee, dataType) == registry

revokeConsent(registry, grantor, grantee, dataType) ==
    LET key == consentKey(grantor, dataType) IN
    IF Has(registry, key) THEN Put(registry, key, registry[key] \ {grantee}) ELSE registry

\* the sum of consents.size over consentRegistry.values()
RECURSIVE countActiveConsents(_)
countActiveConsents(registry) ==
    IF DOMAIN registry = {} THEN 0
    ELSE LET key == CHOOSE k \in DOMAIN registry : TRUE IN
         Cardinality(registry[key]) + countActiveConsents(Drop(registry, key))

\* what a consent call met: whether the call before it was grantConsent with the same
\* three arguments, and whether the grantee was in the set of the key when it began
ConsentCall(op, grantor, grantee, dataType, event) ==
    LET args == [grantor |-> grantor, grantee |-> grantee, dataType |-> dataType]
        key == consentKey(grantor, dataType)
    IN  [op |-> op, args |-> args, ret |-> "void", threw |-> FALSE,
         events |-> <<Ev(event, NoId, args)>>, sent |-> <<>>,
         afterGrant |-> (last.op = "grantConsent" /\ last.args = args),
         member |-> (Has(consentRegistry, key) /\ grantee \in consentRegistry[key])]

GrantConsent(grantor, grantee, dataType) ==
    /\ consentRegistry' = grantConsent(consentRegistry, grantor, grantee, dataType)
    /\ last' = ConsentCall("grantConsent", grantor, grantee, dataType, "consentGranted")
    /\ UNCHANGED <<netVars, policies, trustScores, arg>>

RevokeConsent(grantor, grantee, dataType) ==
    /\ consentRegistry' = revokeConsent(consentRegistry, grantor, grantee, dataType)
    /\ last' = ConsentCall("revokeConsent", grantor, grantee, dataType, "consentRevoked")
    /\ UNCHANGED <<netVars, policies, trustScores, arg>>

\* faulty variant: only the lower bound is checked
updateTrustScoreThrows_NoUpperBound(score) == score < 0

\* score < 0 || score > 1, in hundredths
updateTrustScoreThrows(score) == score < 0 \/ score > 100

UpdateTrustScore(nodeId, score) ==
    /\ IF updateTrustScoreThrows(score)
       THEN /\ UNCHANGED trustScores
            /\ last' = CallA("updateTrustScore", [nodeId |-> nodeId, score |-> score], "void", TRUE, <<>>, <<>>)
       ELSE /\ trustScores' = Put(trustScores, nodeId, score)
            /\ last' = CallA("updateTrustScore", [nodeId |-> nodeId, score |-> score], "void", FALSE,
                             <<Ev("trustScoreUpdated", nodeId, [score |-> score])>>, <<>>)
    /\ UNCHANGED <<netVars, policies, consentRegistry, arg>>

(***************************************************************************)
(* encryptData, decryptData                                                *)
(***************************************************************************)
\* JavaScript values, tagged by kind; the properties of an object keep their order
JsNull == [t |-> "null"]
JsUndefined == [t |-> "undefined"]
JsNaN == [t |-> "NaN"]
JsBigInt == [t |-> "bigint"]
JsBool(b) == [t |-> "boolean", b |-> b]
JsNum(n) == [t |-> "number", n |-> n]
JsStr(str) == [t |-> "string", s |-> str]
JsArr(items) == [t |-> "array", items |-> items]
JsObj(props) == [t |-> "object", props |-> props]

Scalars == {JsNull, JsBool(TRUE), JsNum(0), JsNum(7), JsStr(""), JsStr("a")}
\* JSON-serializable values: scalars, arrays and objects of them
JsonValues ==
    Scalars \cup {JsArr(<<>>), JsObj(<<>>)}
            \cup {JsArr(<<v>>) : v \in Scalars}
            \cup {JsObj(<<<<"k", v>>>>) : v \in Scalars}
\* values JSON has no text for
OtherValues ==
    {JsUndefined, JsNaN, JsBigInt, JsArr(<<JsUndefined>>),
     JsObj(<<<<"k", JsUndefined>>>>), JsObj(<<<<"k", JsBigInt>>>>)}
DataInputs == JsonValues \cup OtherValues

\* JSON.stringify throws a TypeError on a BigInt anywhere in the value
RECURSIVE stringifyThrows(_)
stringifyThrows(v) ==
    CASE v.t = "bigint" -> TRUE
      [] v.t = "array" -> \E i \in DOMAIN v.items : stringifyThrows(v.items[i])
      [] v.t = "object" -> \E i \in DOMAIN v.props : stringifyThrows(v.props[i][2])
      [] OTHER -> FALSE

NumberText(n) == CASE n = 0 -> "0" [] n = 7 -> "7"
Quote(str) == "\"" \o str \o "\""

\* the text JSON.stringify returns for a value other than undefined: NaN and an undefined
\* array item are written null, a property holding undefined is left out
RECURSIVE stringify(_)
RECURSIVE stringifyItems(_)
RECURSIVE stringifyProps(_)
stringify(v) ==
    CASE v.t = "null" -> "null"
      [] v.t = "NaN" -> "null"
      [] v.t = "boolean" -> (IF v.b THEN "true" ELSE "false")
      [] v.t = "number" -> NumberText(v.n)
      [] v.t = "string" -> Quote(v.s)
      [] v.t = "array" -> "[" \o stringifyItems(v.items) \o "]"
      [] v.t = "object" ->
            "{" \o stringifyProps(SelectSeq(v.props, LAMBDA p : p[2].t # "undefined")) \o "}"
stringifyItems(items) ==
    IF items = <<>> THEN ""
    ELSE (IF Head(items).t = "undefined" THEN "null" ELSE stringify(Head(items)))
           \o (IF Tail(items) = <<>> THEN "" ELSE "," \o stringifyItems(Tail(items)))
stringifyProps(props) ==
    IF props = <<>> THEN ""
    ELSE Quote(Head(props)[1]) \o ":" \o stringify(Head(props)[2])
           \o (IF Tail(props) = <<>> THEN "" ELSE "," \o stringifyProps(Tail(props)))

\* JSON.parse of a text: the value the text denotes, a SyntaxError when it denotes none
parseThrows(text) == ~\E v \in JsonValues : stringify(v) = text
parse(text) == CHOOSE v \in JsonValues : stringify(v) = text

\* randomBytes(32) of the constructor, and the key of another instance
encryptionKey == "key-1"
OtherKey == "key-2"
\* randomBytes(16): nothing keeps two draws apart
Ivs == {"iv-1", "iv-2"}

\* buffer.toString('hex') and Buffer.from(text, 'hex')
Hex(bytes) == [hex |-> bytes]
FromHex(text) == text.hex

\* aes-256-gcm: the ciphertext of a text under (key, iv), the tag over it, and what
\* decipher.update yields for a ciphertext under (key, iv)
Ciphertext(key, iv, text) == [key |-> key, iv |-> iv, plain |-> text]
AuthTag(key, iv, ciphertext) == [key |-> key, iv |-> iv, over |-> ciphertext]
Deciphered(key, iv, ciphertext) ==
    IF ciphertext.key = key /\ ciphertext.iv = iv THEN ciphertext.plain ELSE "<noise>"

NullEnvelope == [null |-> TRUE]
Seal(key, iv, jsonData) ==
    [data |-> Hex(Ciphertext(key, iv, jsonData)),
     iv |-> Hex(iv),
     tag |-> Hex(AuthTag(key, iv, Ciphertext(key, iv, jsonData)))]

\* what encryptData returns and emits
Outcome(ret, events, envelope) == [ret |-> ret, events |-> events, envelope |-> envelope]
Failed == Outcome("null", <<Ev("error", NoId, NoMsg)>>, NullEnvelope)

\* faulty variant: the policy of the data type is not looked up
encryptData_NoPolicyCheck(pols, data, dataType, iv) ==
    IF stringifyThrows(data) THEN Failed
    ELSE IF data.t = "undefined" THEN Failed
    ELSE Outcome("envelope", <<>>, Seal(encryptionKey, iv, stringify(data)))

encryptData(pols, data, dataType, iv) ==
    IF ~Has(pols, dataType) THEN Failed
    ELSE IF stringifyThrows(data) THEN Failed
    ELSE IF data.t = "undefined" THEN Failed     \* cipher.update(undefined) throws a TypeError
    ELSE Outcome("envelope", <<>>, Seal(encryptionKey, iv, stringify(data)))

EncryptData(data, dataType, iv) ==
    /\ LET out == encryptData(policies, data, dataType, iv) IN
       last' = [op |-> "encryptData", args |-> [data |-> data, dataType |-> dataType],
                ret |-> out.ret, threw |-> FALSE, events |-> out.events, sent |-> <<>>,
                envelope |-> out.envelope]
    /\ UNCHANGED <<netVars, privVars, arg>>

\* the value decryptData returns; JsNull with an error event is its failure
Opened(value, events) == [value |-> value, events |-> events]
OpenFailed == Opened(JsNull, <<Ev("error", NoId, NoMsg)>>)

\* faulty variant: the decrypted text is returned as it is, not parsed
decryptData_ReturnsText(encryptedData) ==
    IF encryptedData = NullEnvelope THEN OpenFailed
    ELSE LET iv == FromHex(encryptedData.iv)
             ciphertext == FromHex(encryptedData.data)
         IN  IF FromHex(encryptedData.tag) # AuthTag(encryptionKey, iv, ciphertext) THEN OpenFailed
             ELSE Opened(JsStr(Deciphered(encryptionKey, iv, ciphertext)), <<>>)

decryptData(encryptedData) ==
    IF encryptedData = NullEnvelope THEN OpenFailed      \* TypeError reading null.iv
    ELSE LET iv == FromHex(encryptedData.iv)
             ciphertext == FromHex(encryptedData.data)
             text == Deciphered(encryptionKey, iv, ciphertext)
         IN  IF FromHex(encryptedData.tag) # AuthTag(encryptionKey, iv, ciphertext)
             THEN OpenFailed                             \* decipher.final throws
             ELSE IF parseThrows(text) THEN OpenFailed
             ELSE Opened(parse(text), <<>>)

\* envelopes a caller may hold: those encryptData can return, the same with the tag
\* or the nonce of another one, those of another instance, and a failed encryption
Encryptable == {d \in DataInputs : ~stringifyThrows(d) /\ d.t # "undefined"}
OwnEnvelopes == {Seal(encryptionKey, iv, stringify(d)) : d \in Encryptable, iv \in Ivs}
EnvelopeInputs ==
    OwnEnvelopes
      \cup {[e EXCEPT !.tag = Hex(AuthTag(OtherKey, FromHex(e.iv), FromHex(e.data)))] : e \in OwnEnvelopes}
      \cup {[e EXCEPT !.iv = Hex(CHOOSE iv \in Ivs : iv # FromHex(e.iv))] : e \in OwnEnvelopes}
      \cup {Seal(OtherKey, iv, stringify(d)) : d \in Encryptable, iv \in Ivs}
      \cup {NullEnvelope}

\* fromLast: the envelope is what the call before, an encryptData, returned
DecryptData(encryptedData) ==
    /\ LET out == decryptData(encryptedData) IN
       last' = [op |-> "decryptData", args |-> [encryptedData |-> encryptedData],
                ret |-> (IF out.events = <<>> THEN "value" ELSE "null"), threw |-> FALSE,
                events |-> out.events, sent |-> <<>>, value |-> out.value,
                fromLast |-> (last.op = "encryptData" /\ last.envelope = encryptedData)]
    /\ UNCHANGED <<netVars, privVars, arg>>

(***************************************************************************)
(* validateMessage on its own: the argument is drawn at the start          *)
(***************************************************************************)
MessageShapes ==
    [id : {"", "m1"}, type : {"", "DATA_SHARE"}, sender : {"", "peerA"},
     recipient : {"", "me"}, payload : {"data"}, timestamp : 0..(MaxTime + 1)]
ValidateInputs ==
    [message : MessageShapes \cup {Drop(m, "timestamp") : m \in MessageShapes}
                             \cup {Drop(m, "id") : m \in MessageShapes},
     dateNow : Clock]

ValidateMessage ==
    /\ last.op = "constructor"
    /\ last' = CallA("validateMessage", arg, Bool(validateMessage(arg.message, arg.dateNow)), FALSE, <<>>, <<>>)
    /\ UNCHANGED <<netVars, privVars, arg>>

InitNet ==
    /\ connections = <<>>
    /\ heartbeatIntervals = [n \in NodeIds |-> NoTimer]
    /\ timers = {}
    /\ ws = [s \in Sock |-> [readyState |-> "NONE", nodeId |-> NoId]]
    /\ server = "LISTENING"

InitPriv ==
    /\ policies = <<>>
    /\ trustScores = <<>>
    /\ consentRegistry = <<>>

Init ==
    /\ InitNet
    /\ InitPriv
    /\ arg = <<>>
    /\ last = Call("constructor", NoId, "void", FALSE, <<>>, <<>>)

OpenInTable == {connections[i][2] : i \in {j \in DOMAIN connections : IsOpen(connections[j][2])}}

NextNet ==
    \/ handleConnection
    \/ \E s \in Sock : TransportClosing(s)
    \/ \E s \in Sock : OnClose(s)
    \/ \E s \in Sock : OnError(s)
    \/ \E s \in Sock : HeartbeatTick(s)
    \/ \E s \in Sock, data \in ProbeData, dateNow \in Clock : OnMessage(s, data, dateNow)
    \/ \E m \in OutMessages, sendThrows \in BOOLEAN : SendMessage(m, sendThrows)
    \/ \E m \in Templates, failing \in SUBSET OpenInTable : Broadcast(m, failing)
    \/ Disconnect
    \/ OnServerClosed

\* connection lifecycle, outbound traffic and shutdown
SpecNet == Init /\ [][NextNet]_vars

\* what the runtime and the transport go on to do: a scheduled interval timer fires
\* again, a socket that is closing reports 'close' (an open one may stay open), a
\* closing server calls back
FairNet ==
    /\ \A s \in Sock : WF_vars(HeartbeatTick(s))
    /\ \A s \in Sock : WF_vars(ws[s].readyState = "CLOSING" /\ OnClose(s))
    /\ WF_vars(OnServerClosed)

\* a scheduled interval timer fires again and again; nothing else is promised
FairBeat == \A s \in Sock : WF_vars(HeartbeatTick(s))

\* the calls and callbacks that change the table, the timers or a socket
NextBeat ==
    \/ handleConnection
    \/ \E s \in Sock : TransportClosing(s)
    \/ \E s \in Sock : OnClose(s)
    \/ \E s \in Sock : OnError(s)
    \/ \E s \in Sock : HeartbeatTick(s)
    \/ Disconnect
    \/ OnServerClosed

\* the connection lifecycle with heartbeat timers that do fire
SpecBeat == Init /\ [][NextBeat]_vars /\ FairBeat

\* the connection lifecycle with timers and close events that do fire
SpecNetFair == Init /\ [][NextNet]_vars /\ FairNet

NextMsg ==
    \/ handleConnection
    \/ \E s \in Sock : OnClose(s)
    \/ \E s \in Sock, data \in InboundData, dateNow \in Clock : OnMessage(s, data, dateNow)

\* inbound traffic on accepted connections
SpecMsg == Init /\ [][NextMsg]_vars

NextPriv ==
    \/ \E d \in DataTypes, p \in PermissionPolicies : SetPolicy(d, p)
    \/ \E n \in NodeIds, score \in ScoreInputs : UpdateTrustScore(n, score)
    \/ \E g \in NodeIds, e \in NodeIds, d \in DataTypes : GrantConsent(g, e, d)
    \/ \E g \in NodeIds, e \in NodeIds, d \in DataTypes : RevokeConsent(g, e, d)
    \/ \E n \in NodeIds, d \in QueryTypes, o \in Operations : CheckPermission(n, d, o)

\* permission decisions over policies, trust and consent
SpecPriv == Init /\ [][NextPriv]_vars

NextPolicy ==
    \E d \in DataTypes, p \in PolicyInputs : SetPolicy(d, p)

\* setPolicy with every shape of policy
SpecPolicy == Init /\ [][NextPolicy]_vars

\* the one policy the encryption specification stores
CryptoPolicies == {p \in PermissionPolicies : p.allowedOperations = {"read"} /\ p.sharingPolicy.allowedNodes = {}
                                              /\ p.sharingPolicy.requireConsent /\ p.sharingPolicy.minimumTrust = 0}

NextCrypto ==
    \/ \E d \in DataTypes, p \in CryptoPolicies : SetPolicy(d, p)
    \/ \E data \in DataInputs, d \in QueryTypes, iv \in Ivs : EncryptData(data, d, iv)
    \/ \E e \in EnvelopeInputs : DecryptData(e)

\* encryption and decryption under the policies stored
SpecCrypto == Init /\ [][NextCrypto]_vars

InitValidate ==
    /\ InitNet
    /\ InitPriv
    /\ arg \in ValidateInputs
    /\ last = Call("constructor", NoId, "void", FALSE, <<>>, <<>>)

\* validateMessage applied to every shape of message
SpecValidate == InitValidate /\ [][ValidateMessage]_vars

(***************************************************************************)
(* Properties                                                              *)
(***************************************************************************)

\* C1: the connection table never holds more than maxConnections entries, and a
\* connection arriving while it holds maxConnections is closed, is not registered,
\* gets no heartbeat timer and causes no event.
C1_CapacityRespected ==
    [][/\ MapSize(connections') <= maxConnections
       /\ (last'.op = "handleConnection" /\ MapSize(connections) >= maxConnections) =>
            /\ connections' = connections
            /\ heartbeatIntervals' = heartbeatIntervals
            /\ timers' = timers
            /\ ws'[NextSock].readyState = "CLOSING"
            /\ ws'[NextSock].nodeId = NoId
            /\ last'.events = <<>>]_vars

\* a connection was turned away from a full table
C1_RejectedAtCapacity ==
    /\ last.op = "handleConnection"
    /\ last.ret = "rejected"
    /\ MapSize(connections) = maxConnections

\* the five conditions of a permission, read off the stored policy, trust and consent
C2_Permitted(nodeId, dataType, operation) ==
    /\ dataType \in DOMAIN policies
    /\ operation \in policies[dataType]["allowedOperations"]
    /\ nodeId \in policies[dataType]["sharingPolicy"].allowedNodes
    /\ (IF nodeId \in DOMAIN trustScores THEN trustScores[nodeId] ELSE 0)
          >= policies[dataType]["sharingPolicy"].minimumTrust
    /\ \/ ~policies[dataType]["sharingPolicy"].requireConsent
       \/ /\ consentKey(nodeId, dataType) \in DOMAIN consentRegistry
          /\ consentRegistry[consentKey(nodeId, dataType)] # {}

\* C2: checkPermission returns true exactly when a policy is stored for the data type,
\* the operation is allowed, the node is an allowed node, its trust score (0 when
\* absent) reaches minimumTrust, and consent is not required or the node's consent set
\* for the data type is non-empty; the call changes no state and emits no event.
C2_CheckPermissionDecision ==
    [][last'.op = "checkPermission" =>
         /\ last'.ret = Bool(C2_Permitted(last'.args.nodeId, last'.args.dataType, last'.args.operation))
         /\ last'.threw = FALSE
         /\ last'.events = <<>>
         /\ UNCHANGED privVars]_vars

\* a permission was granted under a policy that requires consent and a trust of 0.5
C2_GrantedUnderConsentAndTrust ==
    /\ last.op = "checkPermission"
    /\ last.ret = "true"
    /\ policies[last.args.dataType]["sharingPolicy"].requireConsent
    /\ policies[last.args.dataType]["sharingPolicy"].minimumTrust = 50

\* C3: sendMessage never throws; it returns true exactly when the recipient is in the
\* table, its connection is open and the send succeeds, and emits messageSent exactly
\* then; for an absent or not-open recipient it transmits nothing and emits nothing; a
\* failed send emits error and returns false; the table is unchanged.
C3_SendMessageOutcome ==
    [][last'.op = "sendMessage" =>
         LET message == last'.args.message
             recipient == message["recipient"]
             deliverable == /\ MapHas(connections, recipient)
                            /\ ws[MapGet(connections, recipient)].readyState = "OPEN"
             succeeds == deliverable /\ ~last'.args.sendThrows
         IN  /\ last'.threw = FALSE
             /\ last'.ret = Bool(succeeds)
             /\ EventCount(last', "messageSent") = (IF succeeds THEN 1 ELSE 0)
             /\ succeeds => /\ last'.events = <<Ev("messageSent", NoId, message)>>
                            /\ last'.sent = <<Frame(MapGet(connections, recipient), JSONstringify(message))>>
             /\ ~deliverable => last'.events = <<>> /\ last'.sent = <<>>
             /\ (deliverable /\ last'.args.sendThrows) =>
                    /\ last'.events = <<Ev("error", NoId, message)>>
                    /\ last'.sent = <<>>
             /\ UNCHANGED netVars]_vars

\* a send to an open, registered recipient failed in the transport
C3_SendFailedOnOpenConnection ==
    /\ last.op = "sendMessage"
    /\ last.args.sendThrows
    /\ MapHas(connections, last.args.message["recipient"])
    /\ IsOpen(MapGet(connections, last.args.message["recipient"]))
    /\ last.ret = "false"

\* C4: broadcast transmits exactly one copy, addressed to that peer, to every
\* connection of the table that is open, nothing to the others, raises no error and
\* emits exactly one messageBroadcast carrying the template.
C4_BroadcastReachesEveryOpenConnection ==
    last.op = "broadcast" =>
        LET message == last.args.message IN
        /\ last.threw = FALSE
        /\ last.events = <<Ev("messageBroadcast", NoId, message)>>
        /\ \A i \in DOMAIN connections :
              LET copies == {k \in DOMAIN last.sent : last.sent[k].to = connections[i][2]} IN
              IF IsOpen(connections[i][2])
              THEN /\ Cardinality(copies) = 1
                   /\ \A k \in copies :
                        last.sent[k].data = JSONstringify(WithRecipient(message, connections[i][1]))
              ELSE copies = {}

\* C5: a peer causes at most one nodeDisconnected: no call or callback emits
\* nodeDisconnected for a node id that is no longer in the connection table.
C5_NoDisconnectEventForRemovedPeer ==
    [][\A i \in DOMAIN last'.events :
          last'.events[i].name = "nodeDisconnected" =>
              MapHas(connections, last'.events[i].nodeId)]_vars

\* C6: validateMessage accepts exactly the messages whose id, type, sender and
\* recipient are non-empty and whose timestamp is present and not later than now.
C6_ValidateMessageContract ==
    last.op = "validateMessage" =>
        LET message == last.args.message
            NonEmpty(f) == f \in DOMAIN message /\ message[f] # ""
        IN  last.ret = Bool(/\ NonEmpty("id")
                            /\ NonEmpty("type")
                            /\ NonEmpty("sender")
                            /\ NonEmpty("recipient")
                            /\ "timestamp" \in DOMAIN message
                            /\ message["timestamp"] <= last.args.dateNow)

\* inbound bytes that do not parse to an object or that validateMessage turns down
C7_Rejected(data, dateNow) ==
    data.kind # "json" \/ ~validateMessage(data.value, dateNow)

\* C7: inbound bytes that fail to parse or to validate make handleMessage emit exactly
\* one error event carrying the peer id and nothing else, and leave the connection
\* table, the timers and every socket as they were.
C7_RejectedInboundOnlyReportsError ==
    [][(last'.op = "handleMessage" /\ C7_Rejected(last'.args.data, last'.args.dateNow)) =>
         /\ last'.events = <<Ev("error", last'.args.nodeId, NoMsg)>>
         /\ UNCHANGED netVars]_vars

\* a message failed validation while its sender and another peer were registered
C7_RejectedWithTwoPeers ==
    /\ last.op = "handleMessage"
    /\ last.args.data.kind = "json"
    /\ ~validateMessage(last.args.data.value, last.args.dateNow)
    /\ MapHas(connections, last.args.nodeId)
    /\ MapSize(connections) = 2

\* C8: a message that passes validation makes handleMessage emit one type-specific
\* event and then one messageReceived; the event is the one named after the type for
\* the enumerated types, and unknownMessageType only for a type outside the enum.
C8_DispatchByEnumeratedType ==
    (/\ last.op = "handleMessage"
     /\ last.args.data.kind = "json"
     /\ validateMessage(last.args.data.value, last.args.dateNow)) =>
        LET message == last.args.data.value
            type == message["type"]
        IN  /\ Len(last.events) = 2
            /\ last.events[2] = Ev("messageReceived", last.args.nodeId, message)
            /\ last.events[1].msg = message
            /\ type = "RESOURCE_REQUEST" => last.events[1].name = "resourceRequest"
            /\ type = "DATA_SHARE" => last.events[1].name = "dataShare"
            /\ type = "PATTERN_UPDATE" => last.events[1].name = "patternUpdate"
            /\ type = "CONSENSUS_REQUEST" => last.events[1].name = "consensusRequest"
            /\ type = "NODE_DISCOVERY" => last.events[1].name = "nodeDiscovery"
            /\ last.events[1].name = "unknownMessageType" => type \notin MessageType

\* C9: every stored policy has a non-empty dataType equal to its key, a non-empty
\* allowedOperations and a retentionPeriod above 0.
C9_StoredPoliciesAreValid ==
    \A k \in DOMAIN policies :
        LET policy == policies[k] IN
        /\ "dataType" \in DOMAIN policy
        /\ policy["dataType"] # ""
        /\ policy["dataType"] = k
        /\ "allowedOperations" \in DOMAIN policy
        /\ policy["allowedOperations"] # {}
        /\ "retentionPeriod" \in DOMAIN policy
        /\ policy["retentionPeriod"] > 0

C11_GrantThenRevokeRestoresFalse ==
    [][(last'.op = "revokeConsent" /\ last'.afterGrant) =>
         ~checkConsent(consentRegistry', last'.args.grantor, last'.args.dataType)]_vars

\* C11 (amended): grantConsent(g, e, d) followed at once by revokeConsent(g, e, d) leaves
\* e out of the set of (g, d), and leaves checkConsent(g, d) false exactly when no
\* grantee other than e holds consent for (g, d); held by another, it stays true.
C11_GrantThenRevokeLeavesOthers ==
    [][(last'.op = "revokeConsent" /\ last'.afterGrant) =>
         LET key == consentKey(last'.args.grantor, last'.args.dataType) IN
         /\ last'.args.grantee \notin consentRegistry'[key]
         /\ checkConsent(consentRegistry', last'.args.grantor, last'.args.dataType)
               <=> (consentRegistry[key] \ {last'.args.grantee} # {})]_vars

\* a grant was revoked right after it was made, and the grantor's consent is gone
C11_RevokedRightAfterGrant ==
    /\ last.op = "revokeConsent"
    /\ last.afterGrant
    /\ ~checkConsent(consentRegistry, last.args.grantor, last.args.dataType)

\* C12: granting to a grantee that is already a member (so: granting the same triple
\* twice) and revoking a grantee that is no member, or under a key that has no entry,
\* leave every consent set and the count of active consents as they were; the call
\* emits its one consentGranted / consentRevoked event and changes nothing else.
C12_ConsentIdempotent ==
    [][LET args == last'.args
           key == consentKey(args.grantor, args.dataType)
           isMember == key \in DOMAIN consentRegistry /\ args.grantee \in consentRegistry[key]
       IN  /\ (last'.op = "grantConsent" /\ isMember) =>
                 /\ consentRegistry' = consentRegistry
                 /\ countActiveConsents(consentRegistry') = countActiveConsents(consentRegistry)
                 /\ last'.events = <<Ev("consentGranted", NoId, args)>>
                 /\ last'.threw = FALSE
                 /\ UNCHANGED <<policies, trustScores>>
           /\ (last'.op = "revokeConsent" /\ ~isMember) =>
                 /\ consentRegistry' = consentRegistry
                 /\ countActiveConsents(consentRegistry') = countActiveConsents(consentRegistry)
                 /\ last'.events = <<Ev("consentRevoked", NoId, args)>>
                 /\ last'.threw = FALSE
                 /\ UNCHANGED <<policies, trustScores>>]_vars

\* the same triple was granted twice in a row and the grantee is counted once
C12_GrantedTwiceCountedOnce ==
    /\ last.op = "grantConsent"
    /\ last.afterGrant
    /\ consentRegistry[consentKey(last.args.grantor, last.args.dataType)] = {last.args.grantee}
    /\ countActiveConsents(consentRegistry) = 1

\* C13: encryptData never throws; when no policy is stored for the data type, or
\* serializing or enciphering the data throws, it returns null and emits exactly one
\* error; it returns an envelope only for a data type that has a stored policy; it
\* changes no policy, trust score or consent.
C13_EncryptFailsClosed ==
    [][last'.op = "encryptData" =>
         LET data == last'.args.data
             dataType == last'.args.dataType
             stepThrows == stringifyThrows(data) \/ data.t = "undefined"
         IN  /\ last'.threw = FALSE
             /\ last'.ret \in {"null", "envelope"}
             /\ (dataType \notin DOMAIN policies \/ stepThrows) =>
                    /\ last'.ret = "null"
                    /\ last'.envelope = NullEnvelope
                    /\ last'.events = <<Ev("error", NoId, NoMsg)>>
             /\ last'.ret = "envelope" =>
                    /\ dataType \in DOMAIN policies
                    /\ last'.envelope # NullEnvelope
                    /\ last'.events = <<>>
             /\ UNCHANGED privVars]_vars

\* data holding a BigInt was turned down although its data type has a policy
C13_SerializationFailedUnderPolicy ==
    /\ last.op = "encryptData"
    /\ last.args.dataType \in DOMAIN policies
    /\ stringifyThrows(last.args.data)
    /\ last.ret = "null"
    /\ Len(last.events) = 1

\* C14: for JSON-serializable data and a data type with a stored policy, encryptData
\* returns an envelope, and decryptData of that envelope, in the same instance,
\* returns a value equal to the data and emits no error.
C14_DecryptInvertsEncrypt ==
    [][(/\ last.op = "encryptData"
        /\ last.args.data \in JsonValues
        /\ last.args.dataType \in DOMAIN policies
        /\ last'.op = "decryptData"
        /\ last'.args.encryptedData = last.envelope) =>
           /\ last.ret = "envelope"
           /\ last'.value = last.args.data
           /\ last'.events = <<>>
           /\ last'.threw = FALSE]_vars

\* an object with a string property came back from the envelope encryptData had just returned
C14_ObjectCameBack ==
    /\ last.op = "decryptData"
    /\ last.fromLast
    /\ last.value = JsObj(<<<<"k", JsStr("a")>>>>)
    /\ last.events = <<>>

\* C15: when disconnect() returns, the connection table is empty and no heartbeat timer
\* is left, whatever the connections held before; every connection that was in the
\* table has been closed and has had nodeDisconnected emitted for it; serverClosed is
\* emitted at most once, and only once that cleanup is done.
C15_DisconnectLeavesNothing ==
    [][/\ last'.op = "disconnect" =>
            /\ connections' = <<>>
            /\ timers' = {}
            /\ \A n \in NodeIds : heartbeatIntervals'[n] = NoTimer
            /\ \A i \in DOMAIN connections :
                  /\ ws'[connections[i][2]].readyState # "OPEN"
                  /\ \E k \in DOMAIN last'.events :
                        last'.events[k] = Ev("nodeDisconnected", connections[i][1], NoMsg)
       /\ EventCount(last', "serverClosed") > 0 =>
            /\ EventCount(last', "serverClosed") = 1
            /\ server = "CLOSING"
            /\ server' = "CLOSED"
            /\ connections = <<>>
            /\ timers = {}]_vars

\* C16: the node ids that have a live heartbeat timer are the node ids of the
\* connection table, each with one timer, and no other timer is running.
C16_TimersMatchTable ==
    /\ {n \in NodeIds : heartbeatIntervals[n] # NoTimer} = MapKeys(connections)
    /\ timers = {heartbeatIntervals[n] : n \in MapKeys(connections)}
    /\ Cardinality(timers) = MapSize(connections)

\* C17: the node id given to an accepted connection is in no entry of the connection
\* table and was given to no connection before, so accepting replaces no table entry
\* and no heartbeat timer.
C17_AssignedIdIsFresh ==
    [][(last'.op = "handleConnection" /\ last'.ret = "registered") =>
         /\ ~MapHas(connections, last'.args.nodeId)
         /\ \A s \in Sock : ws[s].nodeId # last'.args.nodeId
         /\ heartbeatIntervals[last'.args.nodeId] = NoTimer
         /\ MapSize(connections') = MapSize(connections) + 1
         /\ timers \subseteq timers']_vars

\* C18: once the entry of a peer is gone from the connection table, bytes arriving on
\* its transport cause no type-specific event, no unknownMessageType and no
\* messageReceived, and no frame is handed to its transport.
C18_NothingAcceptedAfterClosed ==
    [][/\ (last'.op = "handleMessage" /\ ~MapHas(connections, last'.args.nodeId)) =>
            \A k \in DOMAIN last'.events : last'.events[k].name = "error"
       /\ \A k \in DOMAIN last'.sent :
            MapHas(connections, ws[last'.sent[k].to].nodeId)]_vars

\* C19: when the send to one connection fails during broadcast, broadcast does not
\* throw, every other open connection of the table gets its one copy, the one
\* messageBroadcast is emitted, the failure is reported by an error event, and the
\* table, the timers and the sockets are as before.
C19_BroadcastFailureIsolated ==
    [][(last'.op = "broadcast" /\ last'.args.failing # {}) =>
         /\ last'.threw = FALSE
         /\ \A i \in DOMAIN connections :
               (IsOpen(connections[i][2]) /\ connections[i][2] \notin last'.args.failing) =>
                   Cardinality({k \in DOMAIN last'.sent : last'.sent[k].to = connections[i][2]}) = 1
         /\ EventCount(last', "messageBroadcast") = 1
         /\ EventCount(last', "error") >= 1
         /\ UNCHANGED netVars]_vars

\* the error callback of the connection of node n has fired, or a send to it has
\* failed, while n is in the connection table
C20_TransportFailed(n) ==
    /\ MapHas(connections, n)
    /\ \/ last.op = "onError" /\ last.args.nodeId = n
       \/ /\ last.op = "sendMessage"
          /\ last.args.sendThrows
          /\ last.args.message["recipient"] = n
          /\ IsOpen(MapGet(connections, n))

\* C20: a transport failure on a connection (its error callback firing, or a send to
\* it failing) leads to the disconnection cleanup of that connection: its entry
\* leaves the connection table and its heartbeat timer is cancelled.
C20_TransportFailureCleansUp ==
    \A n \in NodeIds :
        C20_TransportFailed(n) ~> (~MapHas(connections, n) /\ heartbeatIntervals[n] = NoTimer)

\* the connection table holds the socket under the node id given to it
C21_RegisteredPeer(sock) ==
    /\ MapHas(connections, ws[sock].nodeId)
    /\ MapGet(connections, ws[sock].nodeId) = sock

\* C21: a heartbeat tick for a registered peer whose transport is open sends it one
\* liveness probe and leaves the table and the timers as they are; a tick for one
\* whose transport is not open removes its entry, cancels its timer and emits
\* nodeDisconnected for it, in that same tick.  Hence, with heartbeat ticks that
\* keep firing, a registered peer whose transport is not open leaves the table.
C21_HeartbeatProbesOrDisconnects ==
    /\ [][(last'.op = "heartbeat" /\ C21_RegisteredPeer(last'.args.sock)) =>
            LET sock == last'.args.sock
                nodeId == ws[sock].nodeId
            IN  IF ws[sock].readyState = "OPEN"
                THEN /\ last'.sent = <<Ping(sock)>>
                     /\ last'.events = <<>>
                     /\ UNCHANGED netVars
                ELSE /\ last'.sent = <<>>
                     /\ last'.events = <<Ev("nodeDisconnected", nodeId, NoMsg)>>
                     /\ connections' = MapDelete(connections, nodeId)
                     /\ ~MapHas(connections', nodeId)
                     /\ sock \notin timers'
                     /\ timers' = timers \ {sock}
                     /\ heartbeatIntervals'[nodeId] = NoTimer]_vars
    /\ \A sock \in Sock :
          (C21_RegisteredPeer(sock) /\ ws[sock].readyState # "OPEN") ~> ~C21_RegisteredPeer(sock)

\* a tick found the transport of a registered peer closing and removed the peer,
\* while another peer stayed registered with its timer
C21_TickRemovedClosingPeer ==
    /\ last.op = "heartbeat"
    /\ last.events = <<Ev("nodeDisconnected", last.args.nodeId, NoMsg)>>
    /\ ws[last.args.sock].readyState = "CLOSING"
    /\ ~MapHas(connections, last.args.nodeId)
    /\ MapSize(connections) = 1
    /\ timers = {connections[1][2]}
====
